---- MODULE Spec2Model ----
(***************************************************************************)
(* Quest-guide enrichment pipeline of the Tarkov Discord bot:              *)
(*   - services/cache.js        the content cache (node-cache store)       *)
(*   - commands/enhancedQuest.js handleEnhancedQuestCommand and            *)
(*                               sendEnhancedResponse                      *)
(*   - the Gemini service       generateQuestGuide, parseLLMResponse       *)
(*   - services/images.js       getQuestImages, scrapeWikiImages,          *)
(*                               findImageForObjective                     *)
(* The handler is an async function: every step between two awaits is one  *)
(* atomic action, several handler invocations interleave at their awaits.  *)
(***************************************************************************)
EXTENDS Integers, Sequences, FiniteSets, TLC

-----------------------------------------------------------------------------
(* Bounds of the model *)

\* handler invocations in one run; they may all be in flight together
NReq == 2
\* number of values the 8-hex-digit digest prefix ranges over in the model
HashSpace == 2
\* distinct EnrichmentResult values handed to the cache API directly
MaxVal == 2
\* advances of the clock in one run
MaxTicks == 3
\* calls of generateQuestGuide in one run
MaxGuideCalls == 2
\* calls of getQuestImages in one run
MaxImageCalls == 2
\* images a scraped page yields at most
MaxPageImages == 11
\* objectives of a quest handed to generateQuestGuide
MaxObjectives == 3
\* words of a context handed to calculateRelevance
MaxWords == 2
\* scraped images in the ImageSet handed to findImageForObjective
MaxWiki == 2

-----------------------------------------------------------------------------
(* Program constants *)

\* new NodeCache({ maxKeys: 500 })
maxKeys == 500
\* new NodeCache({ stdTTL: 604800 }) and const defaultTTL = 604800, in seconds
stdTTL == 604800
\* new NodeCache({ checkperiod: 3600 }), in seconds
checkperiod == 3600

-----------------------------------------------------------------------------
(* Quests: the tracked quest ids and the objective lists they may carry *)

QuestIds == {"q1", "q2"}

ObjLists == { <<"d1">>, <<"d2">> }

\* q1 with its objectives before and after a change, and a second quest
Quests == { [id |-> "q1", objectives |-> <<"d1">>],
            [id |-> "q1", objectives |-> <<"d2">>],
            [id |-> "q2", objectives |-> <<"d1">>] }

NoQuest == [id |-> "", objectives |-> <<>>]

\* {llmGuide, images}; number 0 stands for null / undefined
NoData == [llmGuide |-> 0, images |-> 0]

\* a string of the guide service is the sequence of its lines; <<>> is ''

\* a Guide: { overview, objectives, tips, raw }
NoGuide == [overview |-> <<>>, objectives |-> <<>>, tips |-> <<>>, raw |-> <<>>]

\* a model response text, by what the patterns of parseLLMResponse find in it:
\* the overview, the match of each objective's patterns (<<>>: no match), whether
\* there is a Step-by-Step Guide section and the lines it captures, the tips
EmptyText == [overview |-> <<>>, marked |-> <<>>, section |-> FALSE, steps |-> <<>>,
              tips |-> <<>>, raw |-> <<>>]

\* generateQuestGuide before its first call: let client = null.  text, badAt:
\* the response text of the last call and the objective whose pattern broke
IdleGen == [pc |-> "idle", calls |-> 0, apiKey |-> "unread", client |-> FALSE,
            quest |-> NoQuest, attempts |-> 0, log |-> <<>>,
            text |-> EmptyText, badAt |-> 0,
            ret |-> "none", guide |-> NoGuide, raised |-> FALSE]

\* what getQuestImages is called with: whether the quest has a wikiLink, a map
\* image link, and how many item icons its first objective has
NoImageQuest == [wikiLink |-> FALSE, map |-> FALSE, icons |-> 0]

\* { mapImage, objectiveImages, itemImages } before anything was extracted
NoApiImages == [mapImage |-> "", objectiveImages |-> <<>>]

\* getQuestImages before its first call
IdleImg == [pc |-> "idle", calls |-> 0, quest |-> NoImageQuest, timer |-> "off",
            api |-> NoApiImages, accepted |-> <<>>, wikiImages |-> <<>>,
            totalImages |-> 0,
            failure |-> "none", ret |-> "none", threw |-> FALSE]

\* findImageForObjective has not been called, nor calculateRelevance (scored,
\* context, relevance: its call, its first argument and its result)
NoPick == [called |-> FALSE, keywords |-> <<>>, objectiveIndex |-> 0,
           allImages |-> [objectiveImages |-> <<>>, wikiImages |-> <<>>], ret |-> "",
           scored |-> FALSE, context |-> <<>>, relevance |-> [score |-> 0, maxScore |-> 1]]

\* JSON.stringify(objectives || []): the descriptions in order, bracketed
RECURSIVE JoinDescriptions(_)
JoinDescriptions(objs) ==
    IF Len(objs) = 0 THEN ""
    ELSE IF Len(objs) = 1 THEN "{" \o Head(objs) \o "}"
    ELSE "{" \o Head(objs) \o "}," \o JoinDescriptions(Tail(objs))

JSONStringify(objectives) == "[" \o JoinDescriptions(objectives) \o "]"

Serialised == { JSONStringify(o) : o \in ObjLists }

\* the hex rendering of a digest prefix
HexDigits == <<"0", "1", "2", "3", "4", "5", "6", "7", "8", "9",
               "a", "b", "c", "d", "e", "f">>

Hex(n) == HexDigits[(n % 16) + 1]

VARIABLES
    md5,      \* crypto md5 digest, cut to its prefix: a fixed function of the serialised text
    store,    \* questCache.data: cache key -> cached {llmGuide, images}
    others,   \* number of questCache entries that belong to quests outside Quests
    req,      \* the handler invocations: position and locals of each
    last,     \* the last direct call of the cache API and what it returned
    clock,    \* Date.now() in seconds, the advances made, and when the sweep timer is due
    expiry,   \* questCache.data[key].t: cache key -> the second the entry's ttl ends
    written,  \* cache key -> value, time and ttl of the last accepted write
    gen,      \* generateQuestGuide: the module's client, the call in progress and its trace
    img,      \* getQuestImages: the call in progress, its abort timer and its outcome
    pick      \* the last call of findImageForObjective: its arguments and its result

\* the state outside the cache store and the command handler
aux == <<clock, expiry, written, gen, img, pick>>

vars == <<md5, store, others, req, last, aux>>

-----------------------------------------------------------------------------
(* services/cache.js *)

\* variant: the key leaves the objectives out
KeyWithoutHash(questId, objectives) == "quest:" \o questId

\* variant: the key leaves the quest id out
KeyWithoutId(questId, objectives) == "quest:" \o Hex(md5[JSONStringify(objectives)])

generateCacheKey(questId, objectives) ==
    "quest:" \o questId \o ":" \o Hex(md5[JSONStringify(objectives)])

\* questCache.stats.keys
KeyCount(s, o) == Cardinality(DOMAIN s) + o

\* questCache.get(key): the stored reference (useClones: false) or undefined
NodeCacheGet(s, k) == IF k \in DOMAIN s THEN s[k] ELSE NoData

\* variant: reports success without keeping the entry
NodeCacheSetDropping(s, o, k, v) ==
    IF KeyCount(s, o) >= maxKeys
    THEN [threw |-> TRUE, ret |-> FALSE, store |-> s]
    ELSE [threw |-> FALSE, ret |-> TRUE, store |-> s]

\* variant: a full store makes room by evicting an entry
NodeCacheSetEvicting(s, o, k, v) ==
    LET room == IF KeyCount(s, o) >= maxKeys /\ DOMAIN s # {}
                THEN DOMAIN s \ {CHOOSE x \in DOMAIN s : TRUE}
                ELSE DOMAIN s
    IN  [threw |-> FALSE, ret |-> TRUE,
         store |-> [x \in room \cup {k} |-> IF x = k THEN v ELSE s[x]]]

\* questCache.set(key, value, ttl): throws ECACHEFULL when stats.keys >= maxKeys,
\* otherwise stores the reference and returns true
NodeCacheSet(s, o, k, v) ==
    IF KeyCount(s, o) >= maxKeys
    THEN [threw |-> TRUE, ret |-> FALSE, store |-> s]
    ELSE [threw |-> FALSE, ret |-> TRUE,
          store |-> [x \in DOMAIN s \cup {k} |-> IF x = k THEN v ELSE s[x]]]

\* questCache.del(key): number of deleted entries
NodeCacheDel(s, k) ==
    IF k \in DOMAIN s
    THEN [ret |-> 1, store |-> [x \in DOMAIN s \ {k} |-> s[x]]]
    ELSE [ret |-> 0, store |-> s]

getCachedQuestGuide(s, questId, objectives) ==
    LET cacheKey == generateCacheKey(questId, objectives)
        cachedData == NodeCacheGet(s, cacheKey)
    IN  IF cachedData # NoData THEN cachedData ELSE NoData

\* variant: no try / catch around the store call
SetThrowing(s, o, questId, objectives, data) ==
    LET cacheKey == generateCacheKey(questId, objectives)
        r == NodeCacheSet(s, o, cacheKey, data)
    IN  [threw |-> r.threw, ret |-> r.ret, store |-> r.store]

\* variant: the catch block reports success
SetBlind(s, o, questId, objectives, data) ==
    LET cacheKey == generateCacheKey(questId, objectives)
        r == NodeCacheSet(s, o, cacheKey, data)
    IN  [threw |-> FALSE, ret |-> TRUE, store |-> r.store]

\* try { ... questCache.set(...) ... return success } catch { return false }
setCachedQuestGuide(s, o, questId, objectives, data) ==
    LET cacheKey == generateCacheKey(questId, objectives)
        r == NodeCacheSet(s, o, cacheKey, data)
    IN  IF r.threw
        THEN [threw |-> FALSE, ret |-> FALSE, store |-> s]
        ELSE [threw |-> FALSE, ret |-> r.ret, store |-> r.store]

clearQuestCache(s, questId, objectives) ==
    NodeCacheDel(s, generateCacheKey(questId, objectives))

-----------------------------------------------------------------------------
(* commands/enhancedQuest.js: handleEnhancedQuestCommand *)

Slots == 1..NReq

\* key, at: the key and the time of a call made while the clock runs
NoCall == [op |-> "none", ret |-> FALSE, threw |-> FALSE, full |-> FALSE,
           v |-> NoData, got |-> NoData, before |-> NoData, key |-> "", at |-> 0]

\* key: the cache key computed at the lookup; doneBefore: the invocations for the
\* same quest that had returned when this one looked its quest up
IdleReq == [pc |-> "idle", quest |-> NoQuest, key |-> "", cachedData |-> NoData,
            gstat |-> "none", istat |-> "none", data |-> NoData,
            wrote |-> "none", sent |-> "none", failedSend |-> FALSE,
            threw |-> FALSE, doneBefore |-> {}]

\* a reply or an edit of the thinking message has been issued and not yet settled
Pending == {"replyUsage", "editNotFound", "editHit", "editMiss",
            "editFallback", "editError"}

\* positions after the quest was found and before the handler returned
InFlight == {"tasks", "editHit", "editMiss", "editFallback", "editError"}

\* variant: the lookup result is ignored
ServeNever(cachedData) == FALSE

\* if (cachedData) { ... return await sendEnhancedResponse(thinking, quest, cachedData, ...) }
ServeFromCache(cachedData) == cachedData # NoData

\* Promise.all([generateQuestGuide(quest), getQuestImages(quest)]): both calls are
\* made before the await
StartTasks == [gstat |-> "running", istat |-> "running"]

\* variant: the join waits for the guide only
GuideSettledOnly(x) == x.gstat \in {"ok", "null"}

\* the await of Promise.all resumes when both promises have settled; neither
\* generateQuestGuide nor getQuestImages rejects
BothSettled(x) == x.gstat \in {"ok", "null"} /\ x.istat = "ok"

\* Digest values are only compared and printed, so one digest function stands for
\* all those with the same collisions: the digests of the objective lists, taken
\* in a fixed order, use the values 0, 1, ... in order of first appearance.
SerialisedSeq == << JSONStringify(<<"d1">>), JSONStringify(<<"d2">>) >>

FirstAppearance(f) ==
    \A i \in 1..Len(SerialisedSeq) :
        \/ f[SerialisedSeq[i]] = 0
        \/ \E j \in 1..(i - 1) : f[SerialisedSeq[j]] + 1 >= f[SerialisedSeq[i]]

Init ==
    /\ md5 \in { f \in [Serialised -> 0..(HashSpace - 1)] : FirstAppearance(f) }
    /\ store = [x \in {} |-> NoData]
    /\ others \in {0, maxKeys - 1}
    /\ req = [r \in Slots |-> IdleReq]
    /\ last = NoCall
    /\ clock = [now |-> 0, ticks |-> 0, sweepAt |-> checkperiod]
    /\ expiry = [x \in {} |-> 0]
    /\ written = [x \in {} |-> [v |-> NoData, at |-> 0, ttl |-> 0]]
    /\ gen = IdleGen
    /\ img = IdleImg
    /\ pick = NoPick

\* invocations are numbered in the order they start
NextToStart(r) ==
    /\ req[r].pc = "idle"
    /\ \A r2 \in Slots : r2 < r => req[r2].pc # "idle"

\* args.length === 0: return message.reply('Please provide a quest name ...')
InvokeNoArgs(r) ==
    /\ NextToStart(r)
    /\ req' = [req EXCEPT ![r].pc = "replyUsage", ![r].sent = "usage"]
    /\ UNCHANGED <<aux, md5, store, others, last>>

\* const thinking = await message.reply('Generating ...'); then, inside the try,
\* const quests = await searchQuest(questName)
Invoke(r) ==
    /\ NextToStart(r)
    /\ req' = [req EXCEPT ![r].pc = "search"]
    /\ UNCHANGED <<aux, md5, store, others, last>>

\* the reply rejected: it is awaited outside the try block, the handler's promise rejects
ReplyRejects(r) ==
    /\ req[r].pc = "search"
    /\ req' = [req EXCEPT ![r].pc = "done", ![r].threw = TRUE]
    /\ UNCHANGED <<aux, md5, store, others, last>>

\* !quests || quests.length === 0: return thinking.edit('No quests found ...')
SearchFindsNothing(r) ==
    /\ req[r].pc = "search"
    /\ req' = [req EXCEPT ![r].pc = "editNotFound", ![r].sent = "notfound"]
    /\ UNCHANGED <<aux, md5, store, others, last>>

\* quest = quests[0]; cache lookup; on a hit sendEnhancedResponse is called with
\* the cached data, on a miss both tasks are started and Promise.all is awaited
SearchFinds(r, q) ==
    /\ req[r].pc = "search"
    /\ LET cachedData == getCachedQuestGuide(store, q.id, q.objectives)
           before == { r2 \in Slots : req[r2].pc = "done" /\ req[r2].quest = q }
       IN  IF ServeFromCache(cachedData)
           THEN req' = [req EXCEPT ![r].pc = "editHit", ![r].quest = q,
                                   ![r].key = generateCacheKey(q.id, q.objectives),
                                   ![r].doneBefore = before,
                                   ![r].cachedData = cachedData,
                                   ![r].data = cachedData, ![r].sent = "enriched"]
           ELSE req' = [req EXCEPT ![r].pc = "tasks", ![r].quest = q,
                                   ![r].key = generateCacheKey(q.id, q.objectives),
                                   ![r].doneBefore = before,
                                   ![r].cachedData = cachedData,
                                   ![r].gstat = StartTasks.gstat,
                                   ![r].istat = StartTasks.istat]
    /\ UNCHANGED <<aux, md5, store, others, last>>

\* generateQuestGuide settles: a Guide, or null (it catches every error)
GuideSettles(r, ok) ==
    /\ req[r].pc = "tasks"
    /\ req[r].gstat = "running"
    /\ req' = [req EXCEPT ![r].gstat = IF ok THEN "ok" ELSE "null"]
    /\ UNCHANGED <<aux, md5, store, others, last>>

\* getQuestImages settles with an ImageSet (wikiImages possibly empty)
ImagesSettle(r) ==
    /\ req[r].pc = "tasks"
    /\ req[r].istat = "running"
    /\ req' = [req EXCEPT ![r].istat = "ok"]
    /\ UNCHANGED <<aux, md5, store, others, last>>

\* variant: the null check is missing
GuideNeverFailed(x) == FALSE

\* variant: a write reported as failed aborts the enriched response
WriteRejected(w) == w.threw \/ ~w.ret

\* setCachedQuestGuide(...) is called as a statement: its return value is dropped,
\* only an exception would leave the try block
CacheWriteAborts(w) == w.threw

\* if (!llmGuide) { ... return thinking.edit({ content: null, embeds: [regularEmbed] }) }
GuideFailed(x) == x.gstat = "null"

\* { llmGuide, images } of invocation r
Generated(r) == [llmGuide |-> r, images |-> r]

\* the continuation of await Promise.all: the null check, the cache write and
\* the call of sendEnhancedResponse up to its await of thinking.edit
Join(r) ==
    /\ req[r].pc = "tasks"
    /\ BothSettled(req[r])
    /\ LET q == req[r].quest
           data == Generated(r)
           w == setCachedQuestGuide(store, others, q.id, q.objectives, data)
       IN  IF GuideFailed(req[r])
           THEN /\ req' = [req EXCEPT ![r].pc = "editFallback", ![r].sent = "baseline"]
                /\ store' = store
           ELSE /\ store' = w.store
                /\ IF CacheWriteAborts(w)
                   THEN req' = [req EXCEPT ![r].pc = "editFallback", ![r].sent = "baseline",
                                           ![r].wrote = "failed"]
                   ELSE req' = [req EXCEPT ![r].pc = "editMiss", ![r].sent = "enriched",
                                           ![r].data = data,
                                           ![r].wrote = IF w.ret /\ ~w.threw THEN "ok"
                                                        ELSE "failed"]
    /\ UNCHANGED <<aux, md5, others, last>>

\* the pending reply / edit resolves and the handler returns
EditResolves(r) ==
    /\ req[r].pc \in Pending
    /\ req' = [req EXCEPT ![r].pc = "done"]
    /\ UNCHANGED <<aux, md5, store, others, last>>

\* the pending reply / edit rejects (or building the embeds threw):
\*   cache-hit send     -> outer catch: await thinking.edit('An error occurred ...')
\*   miss-path send     -> inner catch: return thinking.edit({ ..., embeds: [regularEmbed] })
\*   any other one      -> nothing catches it, the handler's promise rejects
EditRejects(r) ==
    /\ req[r].pc \in Pending
    /\ IF req[r].pc = "editHit"
       THEN req' = [req EXCEPT ![r].pc = "editError", ![r].sent = "error",
                               ![r].failedSend = TRUE]
       ELSE IF req[r].pc = "editMiss"
       THEN req' = [req EXCEPT ![r].pc = "editFallback", ![r].sent = "baseline",
                               ![r].failedSend = TRUE]
       ELSE req' = [req EXCEPT ![r].pc = "done", ![r].threw = TRUE]
    /\ UNCHANGED <<aux, md5, store, others, last>>

\* the entry's TTL (7 days) has elapsed and node-cache deletes it; the
\* invocations that wrote under the key are marked
Expire(k) ==
    /\ k \in DOMAIN store
    /\ store' = NodeCacheDel(store, k).store
    /\ req' = [r \in Slots |->
                 IF req[r].wrote = "ok"
                    /\ generateCacheKey(req[r].quest.id, req[r].quest.objectives) = k
                 THEN [req[r] EXCEPT !.wrote = "expired"] ELSE req[r]]
    /\ UNCHANGED <<aux, md5, others, last>>

AllKeys == { generateCacheKey(q.id, q.objectives) : q \in Quests }

Next ==
    \/ \E r \in Slots : InvokeNoArgs(r)
    \/ \E r \in Slots : Invoke(r)
    \/ \E r \in Slots : ReplyRejects(r)
    \/ \E r \in Slots : SearchFindsNothing(r)
    \/ \E r \in Slots, q \in Quests : SearchFinds(r, q)
    \/ \E r \in Slots, ok \in BOOLEAN : GuideSettles(r, ok)
    \/ \E r \in Slots : ImagesSettle(r)
    \/ \E r \in Slots : Join(r)
    \/ \E r \in Slots : EditResolves(r)
    \/ \E r \in Slots : EditRejects(r)
    \/ \E k \in AllKeys : Expire(k)

Spec == Init /\ [][Next]_vars

TypeOK ==
    /\ \A r \in Slots : req[r].pc \in {"idle", "search", "tasks", "done"} \cup Pending
    /\ others \in 0..maxKeys
    /\ KeyCount(store, others) <= maxKeys

-----------------------------------------------------------------------------
(* The cache API called directly (services/cache.js exports) *)

EnrichmentResults == { [llmGuide |-> n, images |-> n] : n \in 1..MaxVal }

\* setCachedQuestGuide(questId, objectives, data); what getCachedQuestGuide returns
\* for the same key right before and right after the call is recorded with it
ApiSet(q, v) ==
    LET w == setCachedQuestGuide(store, others, q.id, q.objectives, v)
    IN  /\ store' = w.store
        /\ last' = [NoCall EXCEPT !.op = "set", !.ret = w.ret, !.threw = w.threw, !.v = v,
                                  !.full = (KeyCount(store, others) >= maxKeys),
                                  !.before = getCachedQuestGuide(store, q.id, q.objectives),
                                  !.got = getCachedQuestGuide(w.store, q.id, q.objectives)]
        /\ UNCHANGED <<aux, md5, others, req>>

\* getCachedQuestGuide(questId, objectives)
ApiGet(q) ==
    /\ last' = [NoCall EXCEPT !.op = "get",
                              !.got = getCachedQuestGuide(store, q.id, q.objectives)]
    /\ UNCHANGED <<aux, md5, store, others, req>>

\* clearQuestCache(questId, objectives)
ApiClearQuest(q) ==
    LET d == clearQuestCache(store, q.id, q.objectives)
    IN  /\ store' = d.store
        /\ last' = [NoCall EXCEPT !.op = "del", !.ret = (d.ret = 1)]
        /\ UNCHANGED <<aux, md5, others, req>>

\* clearCache(): questCache.flushAll()
ApiClearCache ==
    /\ store' = [x \in {} |-> NoData]
    /\ others' = 0
    /\ last' = [NoCall EXCEPT !.op = "flush"]
    /\ UNCHANGED <<aux, md5, req>>

NextCache ==
    \/ \E q \in Quests, v \in EnrichmentResults : ApiSet(q, v)
    \/ \E q \in Quests : ApiGet(q)
    \/ \E q \in Quests : ApiClearQuest(q)
    \/ ApiClearCache
    \/ \E k \in AllKeys : Expire(k)

SpecCache == Init /\ [][NextCache]_vars

-----------------------------------------------------------------------------
(* The cache API while the clock runs: entries carry the time their ttl ends *)

\* the ttl argument of setCachedQuestGuide; 0 stands for an omitted argument
TtlArgs == {0, 1, 2}

\* the quest the timed calls are made for
ClockQuests == { [id |-> "q1", objectives |-> <<"d1">>] }

\* variant: the ttl argument is not passed on to the store
EntryExpiryDefault(nowv, ttl) == nowv + stdTTL

\* questCache.set(cacheKey, data, ttl || defaultTTL): the entry lives until
\* now + ttl seconds
EntryExpiry(nowv, ttl) == nowv + (IF ttl = 0 THEN stdTTL ELSE ttl)

\* node-cache _check: an entry whose time has passed (data.t < Date.now()) is
\* deleted when it is looked at
Expired(e, k, nowv) == k \in DOMAIN e /\ e[k] < nowv

Without(f, ks) == [x \in DOMAIN f \ ks |-> f[x]]

With(f, k, val) == [x \in DOMAIN f \cup {k} |-> IF x = k THEN val ELSE f[x]]

\* setCachedQuestGuide(questId, objectives, data, ttl)
TtlSet(q, v, ttl) ==
    LET k == generateCacheKey(q.id, q.objectives)
        w == setCachedQuestGuide(store, others, q.id, q.objectives, v)
    IN  /\ store' = w.store
        /\ expiry' = IF w.ret THEN With(expiry, k, EntryExpiry(clock.now, ttl)) ELSE expiry
        /\ written' = IF w.ret
                      THEN With(written, k, [v |-> v, at |-> clock.now,
                                             ttl |-> IF ttl = 0 THEN stdTTL ELSE ttl])
                      ELSE written
        /\ last' = [NoCall EXCEPT !.op = "set", !.ret = w.ret, !.threw = w.threw, !.v = v,
                                  !.key = k, !.at = clock.now]
        /\ UNCHANGED <<md5, others, req, clock, gen, img, pick>>

\* getCachedQuestGuide(questId, objectives): questCache.get checks the entry's time
TtlGet(q) ==
    LET k == generateCacheKey(q.id, q.objectives)
        dead == Expired(expiry, k, clock.now)
    IN  /\ store' = IF dead THEN NodeCacheDel(store, k).store ELSE store
        /\ expiry' = IF dead THEN Without(expiry, {k}) ELSE expiry
        /\ last' = [NoCall EXCEPT !.op = "get", !.key = k, !.at = clock.now,
                                  !.got = IF dead THEN NoData
                                          ELSE getCachedQuestGuide(store, q.id, q.objectives)]
        /\ UNCHANGED <<md5, others, req, clock, written, gen, img, pick>>

\* clearQuestCache(questId, objectives)
TtlClearQuest(q) ==
    LET k == generateCacheKey(q.id, q.objectives)
        d == clearQuestCache(store, q.id, q.objectives)
    IN  /\ store' = d.store
        /\ expiry' = Without(expiry, {k})
        /\ written' = Without(written, {k})
        /\ last' = [NoCall EXCEPT !.op = "del", !.ret = (d.ret = 1), !.key = k,
                                  !.at = clock.now]
        /\ UNCHANGED <<md5, others, req, clock, gen, img, pick>>

\* time passes
Tick(d) ==
    /\ clock.ticks < MaxTicks
    /\ clock' = [clock EXCEPT !.now = @ + d, !.ticks = @ + 1]
    /\ UNCHANGED <<md5, store, others, req, last, expiry, written, gen, img, pick>>

\* node-cache _checkData, run by the checkperiod timer: every entry is checked
\* and the timer is set again
Sweep ==
    /\ clock.now >= clock.sweepAt
    /\ LET dead == { k \in DOMAIN store : Expired(expiry, k, clock.now) }
       IN  /\ store' = Without(store, dead)
           /\ expiry' = Without(expiry, dead)
    /\ clock' = [clock EXCEPT !.sweepAt = clock.now + checkperiod]
    /\ UNCHANGED <<md5, others, req, last, written, gen, img, pick>>

NextTtl ==
    \/ \E q \in ClockQuests, v \in EnrichmentResults, ttl \in TtlArgs : TtlSet(q, v, ttl)
    \/ \E q \in ClockQuests : TtlGet(q)
    \/ \E q \in ClockQuests : TtlClearQuest(q)
    \/ \E d \in {1, checkperiod} : Tick(d)
    \/ Sweep

SpecTtl == Init /\ [][NextTtl]_vars

-----------------------------------------------------------------------------
(* The guide generator: generateQuestGuide, initializeGemini, parseLLMResponse *)

\* const maxAttempts = 2
maxAttempts == 2

\* the quests of the guide service carry up to MaxObjectives objectives
Descriptions == <<"d1", "d2", "d3", "d4", "d5">>

GuideQuests == { [id |-> "q3", objectives |-> SubSeq(Descriptions, 1, n)] :
                    n \in {0} \cup 2..MaxObjectives }

ModelTexts ==
    { EmptyText,
      \* every objective has its numbered part
      [overview |-> <<"o">>, marked |-> << <<"a">>, <<"b">>, <<"c">> >>,
       section |-> TRUE, steps |-> <<"1. a", "2. b", "3. c">>, tips |-> <<"t">>,
       raw |-> <<"Overview:", "o", "## Step-by-Step Guide:", "1. a", "2. b", "3. c",
                 "Priority Tips:", "t">>],
      \* only the second objective is found
      [overview |-> <<>>, marked |-> << <<>>, <<"b">> >>,
       section |-> FALSE, steps |-> <<>>, tips |-> <<>>,
       raw |-> <<"Objective 2", "b">>],
      \* no objective is found; a guide section of one, two, three chunks
      [overview |-> <<"o">>, marked |-> <<>>,
       section |-> TRUE, steps |-> <<"A", "">>, tips |-> <<"t">>,
       raw |-> <<"Overview:", "o", "## Step-by-Step Guide:", "A", "", "Priority Tips:", "t">>],
      [overview |-> <<>>, marked |-> <<>>,
       section |-> TRUE, steps |-> <<"A", "", "B", "b">>, tips |-> <<>>,
       raw |-> <<"Step-by-Step Guide:", "A", "", "B", "b">>],
      [overview |-> <<>>, marked |-> <<>>,
       section |-> TRUE, steps |-> <<"A", "", "", "B", "4. D">>, tips |-> <<>>,
       raw |-> <<"Step-by-Step Guide:", "A", "", "", "B", "4. D">>],
      \* a guide section with nothing in it
      [overview |-> <<>>, marked |-> <<>>,
       section |-> TRUE, steps |-> <<>>, tips |-> <<"t">>,
       raw |-> <<"Step-by-Step Guide:", "Priority Tips:", "t">>],
      \* nothing the patterns know
      [overview |-> <<>>, marked |-> <<>>,
       section |-> FALSE, steps |-> <<>>, tips |-> <<>>, raw |-> <<"r">>] }

\* generateQuestGuide's arguments: the quests, and a value without a name
GuideInputs == Quests \cup GuideQuests \cup {NoQuest}

\* buildQuestPrompt(quest) reads quest.name and quest.objectives
PromptThrows(quest) == quest = NoQuest

Blank(line) == line = ""

\* the line starts with digits and a dot
Numbered(line) == line \in {"1. a", "2. b", "3. c", "4. D"}

\* .trim(): the blank lines at both ends go
RECURSIVE Trim(_)
Trim(lines) ==
    IF Len(lines) = 0 THEN lines
    ELSE IF Blank(Head(lines)) THEN Trim(Tail(lines))
    ELSE IF Blank(lines[Len(lines)]) THEN Trim(SubSeq(lines, 1, Len(lines) - 1))
    ELSE lines

\* guideText.split(/\n\n+|\n(?=\d+\.)/) of a trimmed text: a run of blank lines
\* ends a chunk, and so does the line break before a numbered line; '' gives ['']
RECURSIVE Split(_)
Split(lines) ==
    IF Len(lines) = 0 THEN << <<>> >>
    ELSE LET parts == Split(SubSeq(lines, 1, Len(lines) - 1))
             line == lines[Len(lines)]
             open == parts[Len(parts)]
         IN  IF Blank(line)
             THEN IF open = <<>> THEN parts ELSE Append(parts, <<>>)
             ELSE IF Numbered(line) /\ open # <<>>
             THEN Append(parts, <<line>>)
             ELSE [parts EXCEPT ![Len(parts)] = Append(open, line)]

\* sections.objectives after the matching of the forEach callback, before its
\* last statement: index idx is set when a pattern of objective idx matched, and
\* the array ends with the last index that was set
Matched(text, n) ==
    LET set == { i \in 1..n : i <= Len(text.marked) /\ text.marked[i] # <<>> }
        length == IF set = {} THEN 0 ELSE CHOOSE i \in set : \A j \in set : j <= i
    IN  [i \in 1..length |-> text.marked[i]]

\* variant: an objective without a match gets no slot
LeaveUnset(found, n) == found

\* if (!sections.objectives[idx]) { sections.objectives[idx] = ''; }
FillUnset(found, n) == [i \in 1..n |-> IF i <= Len(found) THEN found[i] ELSE <<>>]

\* variant: the guide section is split whatever the matching found
AlwaysSplit(slots) == TRUE

\* sections.objectives.every(obj => obj === '')
NoneParsed(slots) == \A i \in 1..Len(slots) : slots[i] = <<>>

\* sections.objectives[idx] = parts[idx] || guideText
Positional(parts, guideText, n) ==
    [i \in 1..n |-> IF i <= Len(parts) /\ parts[i] # <<>> THEN parts[i] ELSE guideText]

\* variant: the catch block fills the slots from the failing objective on
CatchFillsRest(slots, n, badAt, raw) ==
    [i \in 1..n |-> IF i < badAt /\ i <= Len(slots) THEN slots[i] ELSE raw]

\* catch (error) { quest.objectives.forEach((obj, idx) => { sections.objectives[idx] = text; }) }
CatchFills(slots, n, badAt, raw) == [i \in 1..n |-> raw]

\* parseLLMResponse(text, quest); badAt: the first objective for which building
\* the pattern from obj.description throws (0: none does)
parseLLMResponse(text, quest, badAt) ==
    LET n == Len(quest.objectives)
        slots == FillUnset(Matched(text, n), n)
        guideText == Trim(text.steps)
        split == IF NoneParsed(slots) /\ text.section
                 THEN Positional(Split(guideText), guideText, n)
                 ELSE slots
    IN  [overview |-> text.overview,
         objectives |-> IF badAt \in 1..n THEN CatchFills(slots, n, badAt, text.raw)
                        ELSE split,
         tips |-> text.tips,
         raw |-> text.raw]

\* variant: the catch block of generateQuestGuide throws the error again
Rethrown(g) == [g EXCEPT !.pc = "done", !.ret = "none", !.raised = TRUE]

\* catch (error) { ...; return null }
ReturnsNull(g) == [g EXCEPT !.pc = "done", !.ret = "null"]

\* variant: the delay does not depend on the attempt number
DelayAlways(attempts) == TRUE

\* if (attempts < maxAttempts) await new Promise(resolve => setTimeout(resolve, 1000))
DelayNeeded(attempts) == attempts < maxAttempts

\* variant: the loop condition does not look at the result
LoopUntilMax(hasResult, attempts) == attempts < maxAttempts

\* while (!result && attempts < maxAttempts)
LoopContinues(hasResult, attempts) == ~hasResult /\ attempts < maxAttempts

\* generateQuestGuide(quest) up to its first await.  keySet: GEMINI_API_KEY is in
\* the environment (read once, it does not change); ctorOk: new GoogleGenAI succeeds
GenCall(q, keySet, ctorOk) ==
    /\ gen.pc = "idle"
    /\ gen.calls < MaxGuideCalls
    /\ gen.apiKey = "unread" \/ (gen.apiKey = "set") = keySet
    /\ LET key == IF gen.client THEN gen.apiKey ELSE IF keySet THEN "set" ELSE "unset"
           initialized == gen.client \/ (keySet /\ ctorOk)
           g == [gen EXCEPT !.calls = @ + 1, !.apiKey = key, !.client = initialized,
                            !.quest = q, !.attempts = 0, !.log = <<>>,
                            !.text = EmptyText, !.badAt = 0,
                            !.ret = "none", !.guide = NoGuide, !.raised = FALSE]
       IN  gen' = IF ~initialized THEN [g EXCEPT !.pc = "done", !.ret = "null"]
                  ELSE IF PromptThrows(q) THEN ReturnsNull(g)
                  ELSE IF LoopContinues(FALSE, 0)
                  THEN [g EXCEPT !.pc = "model", !.attempts = 1, !.log = <<"call">>]
                  ELSE ReturnsNull(g)
    /\ UNCHANGED <<md5, store, others, req, last, clock, expiry, written, img, pick>>

\* client.models.generateContent rejects: the catch of the loop, then either the
\* delay, or the loop ends without a result and the error is thrown and caught
ModelRejects ==
    /\ gen.pc = "model"
    /\ LET g == [gen EXCEPT !.log = Append(@, "fail")]
       IN  gen' = IF DelayNeeded(gen.attempts)
                  THEN [g EXCEPT !.pc = "delay", !.log = Append(@, "delay")]
                  ELSE IF LoopContinues(FALSE, gen.attempts)
                  THEN [g EXCEPT !.pc = "model", !.attempts = @ + 1, !.log = Append(@, "call")]
                  ELSE ReturnsNull(g)
    /\ UNCHANGED <<md5, store, others, req, last, clock, expiry, written, img, pick>>

\* the 1000 ms timer fires: the loop condition is tested and the next attempt made
DelayElapses ==
    /\ gen.pc = "delay"
    /\ gen' = IF LoopContinues(FALSE, gen.attempts)
              THEN [gen EXCEPT !.pc = "model", !.attempts = @ + 1, !.log = Append(@, "call")]
              ELSE ReturnsNull(gen)
    /\ UNCHANGED <<md5, store, others, req, last, clock, expiry, written, img, pick>>

\* client.models.generateContent resolves with a response: the loop ends,
\* text = result.text || '' is parsed and the guide returned
ModelResolves(text, badAt) ==
    /\ gen.pc = "model"
    /\ gen' = IF LoopContinues(TRUE, gen.attempts)
              THEN [gen EXCEPT !.attempts = @ + 1, !.log = @ \o <<"ok", "call">>]
              ELSE [gen EXCEPT !.pc = "done", !.log = Append(@, "ok"), !.ret = "guide",
                               !.text = text, !.badAt = badAt,
                               !.guide = parseLLMResponse(text, gen.quest, badAt)]
    /\ UNCHANGED <<md5, store, others, req, last, clock, expiry, written, img, pick>>

\* the caller has the outcome; the module keeps its client
GenReturns ==
    /\ gen.pc = "done"
    /\ gen' = [gen EXCEPT !.pc = "idle"]
    /\ UNCHANGED <<md5, store, others, req, last, clock, expiry, written, img, pick>>

NextGuide ==
    \/ \E q \in GuideInputs, keySet \in BOOLEAN, ctorOk \in BOOLEAN : GenCall(q, keySet, ctorOk)
    \/ ModelRejects
    \/ DelayElapses
    \/ \E text \in ModelTexts, badAt \in 0..MaxObjectives : ModelResolves(text, badAt)
    \/ GenReturns

SpecGuide == Init /\ [][NextGuide]_vars

-----------------------------------------------------------------------------
(* The image collector: getQuestImages, extractAPIImages, scrapeWikiImages *)

ImageQuests == { [wikiLink |-> w, map |-> m, icons |-> n] :
                    w \in BOOLEAN, m \in BOOLEAN, n \in 0..1 }

\* extractAPIImages(quest): the map image and, per objective that has any, its icons
extractAPIImages(quest) ==
    [mapImage |-> IF quest.map THEN "map" ELSE "",
     objectiveImages |->
        IF quest.icons > 0
        THEN << [objectiveIndex |-> 0,
                 images |-> [i \in 1..quest.icons |-> [url |-> "icon", type |-> "icon"]]] >>
        ELSE <<>>]

\* (apiImages.mapImage ? 1 : 0) + the objective images + wikiImages.length
TotalImages(api, wiki) ==
    (IF api.mapImage # "" THEN 1 ELSE 0)
    + (IF Len(api.objectiveImages) > 0 THEN Len(api.objectiveImages[1].images) ELSE 0)
    + Len(wiki)

\* getQuestImages returns { ...apiImages, wikiImages, totalImages }
Collected(i, wiki, why) ==
    [i EXCEPT !.pc = "done", !.wikiImages = wiki, !.failure = why, !.ret = "images",
              !.totalImages = TotalImages(i.api, wiki)]

\* variant: the catch block of scrapeWikiImages throws the error again
ScrapeRethrows(i, why) ==
    [i EXCEPT !.pc = "done", !.failure = why, !.ret = "none", !.threw = TRUE]

\* catch (error) { ...; return [] }
ScrapeFails(i, why) == Collected(i, <<>>, why)

\* clearTimeout(timeout)
clearTimeout(t) == "off"

\* getQuestImages(quest) up to its first await: the API images, then, with a
\* wikiLink, scrapeWikiImages sets the 5000 ms abort timer and calls fetch
ImgCall(q) ==
    /\ img.pc = "idle"
    /\ img.calls < MaxImageCalls
    /\ LET i == [IdleImg EXCEPT !.calls = img.calls + 1, !.quest = q,
                                !.api = extractAPIImages(q)]
       IN  img' = IF q.wikiLink
                  THEN [i EXCEPT !.pc = "fetch", !.timer = "armed"]
                  ELSE Collected(i, <<>>, "none")
    /\ UNCHANGED <<md5, store, others, req, last, clock, expiry, written, gen, pick>>

\* fetch rejects (no connection, bad address)
FetchRejects ==
    /\ img.pc = "fetch"
    /\ img' = ScrapeFails(img, "fetch")
    /\ UNCHANGED <<md5, store, others, req, last, clock, expiry, written, gen, pick>>

\* the 5000 ms timer fires: controller.abort().  While fetch is pending it
\* rejects with an AbortError; afterwards the abort has nothing to stop
TimerFires ==
    /\ img.timer = "armed"
    /\ img' = IF img.pc = "fetch"
              THEN [ScrapeFails(img, "timeout") EXCEPT !.timer = "fired"]
              ELSE [img EXCEPT !.timer = "fired"]
    /\ UNCHANGED <<md5, store, others, req, last, clock, expiry, written, gen, pick>>

\* fetch resolves with the response headers: clearTimeout, then the status check
\* and the await of response.text()
FetchResolves(ok) ==
    /\ img.pc = "fetch"
    /\ LET i == [img EXCEPT !.timer = clearTimeout(img.timer)]
       IN  img' = IF ~ok THEN Collected(i, <<>>, "status")
                  ELSE [i EXCEPT !.pc = "body"]
    /\ UNCHANGED <<md5, store, others, req, last, clock, expiry, written, gen, pick>>

\* response.text() rejects (the connection broke while the body was read)
BodyRejects ==
    /\ img.pc = "body"
    /\ img' = ScrapeFails(img, "body")
    /\ UNCHANGED <<md5, store, others, req, last, clock, expiry, written, gen, pick>>

\* .slice(0, 10)
TopN == 10

\* calculateRelevance of an image's context, in tenths: nothing matched, or
\* every keyword matched as a whole word
RawScores == {0, 10}

\* the pages: the raw relevance of each image that passes the size, icon and
\* content filters, in document order
Pages == UNION { [1..n -> RawScores] : n \in 0..MaxPageImages }

\* images.push({ ..., relevanceScore: relevanceScore || 0.1, source: 'wiki' });
\* pos: the image's place in the page
Accepted(page) ==
    [i \in 1..Len(page) |-> [pos |-> i, relevanceScore |-> IF page[i] = 0 THEN 1 ELSE page[i]]]

\* one step of the stable sort with (a, b) => b.relevanceScore - a.relevanceScore:
\* x goes behind every image that scores at least as high
InsertByScore(x, sorted) ==
    LET ahead == { i \in 1..Len(sorted) : sorted[i].relevanceScore >= x.relevanceScore }
        k == Cardinality(ahead)
    IN  SubSeq(sorted, 1, k) \o <<x>> \o SubSeq(sorted, k + 1, Len(sorted))

RECURSIVE SortByScore(_)
SortByScore(images) ==
    IF Len(images) = 0 THEN <<>>
    ELSE InsertByScore(images[Len(images)], SortByScore(SubSeq(images, 1, Len(images) - 1)))

\* variant: the images are cut to ten in document order
TopUnsorted(images) == SubSeq(images, 1, IF Len(images) < TopN THEN Len(images) ELSE TopN)

\* images.sort(...).slice(0, 10)
TopImages(images) ==
    LET sorted == SortByScore(images)
    IN  SubSeq(sorted, 1, IF Len(sorted) < TopN THEN Len(sorted) ELSE TopN)

\* response.text() resolves: the page is parsed and its images are ranked.
\* badElement: the page has an img element without src, on which
\* src.toLowerCase() throws
BodyResolves(page, badElement) ==
    /\ img.pc = "body"
    /\ img' = IF badElement THEN ScrapeFails(img, "element")
              ELSE Collected([img EXCEPT !.accepted = Accepted(page)],
                             TopImages(Accepted(page)), "none")
    /\ UNCHANGED <<md5, store, others, req, last, clock, expiry, written, gen, pick>>

\* the caller has the ImageSet
ImgReturns ==
    /\ img.pc = "done"
    /\ img' = [IdleImg EXCEPT !.calls = img.calls]
    /\ UNCHANGED <<md5, store, others, req, last, clock, expiry, written, gen, pick>>

NextImages ==
    \/ \E q \in ImageQuests : ImgCall(q)
    \/ FetchRejects
    \/ TimerFires
    \/ \E ok \in BOOLEAN : FetchResolves(ok)
    \/ BodyRejects
    \/ \E page \in Pages, badElement \in BOOLEAN : BodyResolves(page, badElement)
    \/ ImgReturns

\* the image collector does not touch the cache: it is run from the empty store
InitImages == Init /\ others = 0 /\ \A x \in Serialised : md5[x] = 0

SpecImages == InitImages /\ [][NextImages]_vars

\* the timer fires and the continuations of settled promises run; when the page
\* server answers, and whether it does, is not the program's to decide
SpecImagesFair ==
    SpecImages /\ WF_vars(TimerFires) /\ WF_vars(ImgReturns)

-----------------------------------------------------------------------------
(* Image matching: findImageForObjective, calculateRelevance *)

\* In this part a string is the sequence of its characters.
Words == [ab |-> <<"a", "b">>, AB |-> <<"A", "B">>, abs |-> <<"a", "b", "s">>,
          cd |-> <<"c", "d">>, cds |-> <<"c", "d", "s">>, x |-> <<"x">>,
          abcd |-> <<"a", "b", " ", "c", "d">>, none |-> <<>>]

\* the keyword lists of an objective handed to findImageForObjective
Keywords == { <<>>, <<Words.ab>>, <<Words.cd>>, <<Words.ab, Words.cd>> }

\* the images of one objective: icons and full images, in the order pushed
ImageSeqs(idx) ==
    LET icon == [url |-> IF idx = 0 THEN "icon0" ELSE "icon1", type |-> "icon"]
        full == [url |-> IF idx = 0 THEN "full0" ELSE "full1", type |-> "image"]
    IN  { <<>>, <<icon>>, <<full>>, <<icon, full>> }

ApiEntries(idx) == { [objectiveIndex |-> idx, images |-> is] : is \in ImageSeqs(idx) }

\* allImages.objectiveImages: at most one entry per objective index
ObjectiveImageLists ==
    {<<>>} \cup { <<e>> : e \in ApiEntries(0) \cup ApiEntries(1) }
           \cup { <<e0, e1>> : e0 \in ApiEntries(0), e1 \in ApiEntries(1) }

\* scraped images with their description and alt text.  Against the keywords
\* ab and cd: wikiA holds neither, wikiB both as words, wikiC ab inside a longer
\* word, wikiD ab as a word and cd inside a longer word
WikiPool ==
    { [url |-> "wikiA", description |-> Words.x, alt |-> Words.none],
      [url |-> "wikiB", description |-> Words.abcd, alt |-> Words.none],
      [url |-> "wikiC", description |-> Words.abs, alt |-> Words.none],
      [url |-> "wikiD", description |-> Words.AB, alt |-> Words.cds] }

RECURSIVE DistinctSeqs(_, _)
DistinctSeqs(S, n) ==
    IF n = 0 THEN {<<>>}
    ELSE LET shorter == DistinctSeqs(S, n - 1)
         IN  shorter \cup { Append(w, x) : w \in { v \in shorter : Len(v) = n - 1 }, x \in S }

\* allImages.wikiImages
WikiLists == { w \in DistinctSeqs(WikiPool, MaxWiki) :
                 \A i, j \in 1..Len(w) : i # j => w[i] # w[j] }

\* String.prototype.toLowerCase on the characters in use
Lower(c) == IF c = "A" THEN "a" ELSE IF c = "B" THEN "b" ELSE c

\* variant: the case is kept
KeepCase(str) == str

toLowerCase(str) == [i \in 1..Len(str) |-> Lower(str[i])]

\* str.includes(sub)
includes(str, sub) ==
    \E i \in 0..(Len(str) - Len(sub)) : SubSeq(str, i + 1, i + Len(sub)) = sub

\* str.split(/\s+/): a run of spaces separates two words; a space at either end
\* leaves an empty word there
RECURSIVE SplitSpaces(_)
SplitSpaces(str) ==
    IF Len(str) = 0 THEN << <<>> >>
    ELSE LET front == SubSeq(str, 1, Len(str) - 1)
             words == SplitSpaces(front)
             c == str[Len(str)]
             open == words[Len(words)]
         IN  IF c = " "
             THEN IF Len(front) > 0 /\ front[Len(front)] = " " THEN words
                  ELSE Append(words, <<>>)
             ELSE [words EXCEPT ![Len(words)] = Append(open, c)]

\* array.includes(x)
ArrayIncludes(array, x) == \E i \in 1..Len(array) : array[i] = x

\* the body of keywords.forEach: what one keyword adds to score
Points(contextLower, keyword) ==
    IF includes(contextLower, toLowerCase(keyword))
    THEN IF ArrayIncludes(SplitSpaces(contextLower), toLowerCase(keyword)) THEN 2 ELSE 1
    ELSE 0

RECURSIVE SumPoints(_, _)
SumPoints(contextLower, keywords) ==
    IF Len(keywords) = 0 THEN 0
    ELSE Points(contextLower, Head(keywords)) + SumPoints(contextLower, Tail(keywords))

\* calculateRelevance(context, keywords) as the fraction score / maxScore (0 is
\* 0 / 1); score is positive exactly when matchedKeywords is
calculateRelevance(context, keywords) ==
    IF Len(context) = 0 \/ Len(keywords) = 0 THEN [score |-> 0, maxScore |-> 1]
    ELSE [score |-> SumPoints(toLowerCase(context), keywords),
          maxScore |-> Len(keywords) * 2]

\* calculateRelevance(img.description + ' ' + img.alt, keywords) > 0.5
Relevant(image, keywords) ==
    LET r == calculateRelevance(image.description \o <<" ">> \o image.alt, keywords)
    IN  2 * r.score > r.maxScore

\* array.find, given for each element whether it passes the test: the index of
\* the first one that does, or 0
FindFirst(passes) ==
    IF \E i \in 1..Len(passes) : passes[i]
    THEN CHOOSE i \in 1..Len(passes) : passes[i] /\ \A j \in 1..(i - 1) : ~passes[j]
    ELSE 0

\* allImages.wikiImages.find(img => calculateRelevance(...) > 0.5)
FirstRelevant(keywords, wiki) ==
    FindFirst([i \in 1..Len(wiki) |-> Relevant(wiki[i], keywords)])

\* the scraped-image part of findImageForObjective; "" stands for null
FromWiki(keywords, allImages) ==
    LET wiki == allImages.wikiImages
        m == FirstRelevant(keywords, wiki)
    IN  IF Len(wiki) > 0
        THEN IF m # 0 THEN wiki[m].url ELSE wiki[1].url
        ELSE ""

\* variant: a relevant scraped image is preferred to an icon
findImagePreferWiki(keywords, objectiveIndex, allImages) ==
    LET m == FirstRelevant(keywords, allImages.wikiImages)
    IN  IF m # 0 THEN allImages.wikiImages[m].url
        ELSE FromWiki(keywords, allImages)

findImageForObjective(keywords, objectiveIndex, allImages) ==
    LET objs == allImages.objectiveImages
        d == FindFirst([i \in 1..Len(objs) |-> objs[i].objectiveIndex = objectiveIndex])
    IN  IF d # 0 /\ Len(objs[d].images) > 0
        THEN LET images == objs[d].images
                 f == FindFirst([i \in 1..Len(images) |-> images[i].type = "image"])
             IN  IF f # 0 THEN images[f].url ELSE images[1].url
        ELSE FromWiki(keywords, allImages)

\* findImageForObjective(objective, objectiveIndex, allImages), applied once to
\* arguments of any shape
Match(keywords, objectiveIndex, allImages) ==
    /\ ~pick.called
    /\ pick' = [pick EXCEPT !.called = TRUE, !.keywords = keywords,
                             !.objectiveIndex = objectiveIndex, !.allImages = allImages,
                             !.ret = findImageForObjective(keywords, objectiveIndex, allImages)]
    /\ UNCHANGED <<md5, store, others, req, last, clock, expiry, written, gen, img>>

NextMatch ==
    \E keywords \in Keywords, objectiveIndex \in 0..1,
       o \in ObjectiveImageLists, w \in WikiLists :
        Match(keywords, objectiveIndex, [objectiveImages |-> o, wikiImages |-> w])

SpecMatch == Init /\ [][NextMatch]_vars

-----------------------------------------------------------------------------
(* calculateRelevance applied to one context and one keyword list *)

\* the words contexts are made of; the empty one gives contexts that begin or
\* end with a space or hold two spaces in a row
ContextWords == {Words.ab, Words.AB, Words.abs, Words.cd, Words.x, Words.none}

RECURSIVE JoinWords(_)
JoinWords(ws) ==
    IF Len(ws) = 0 THEN <<>>
    ELSE IF Len(ws) = 1 THEN ws[1]
    ELSE ws[1] \o <<" ">> \o JoinWords(Tail(ws))

Contexts == { JoinWords(ws) : ws \in UNION { [1..n -> ContextWords] : n \in 0..MaxWords } }

\* keywords are non-empty strings (the lists are built with filter(Boolean) and
\* from words longer than four characters); a quest name may hold a space
KeywordPool == {Words.ab, Words.AB, Words.cd, Words.abcd}

KeywordLists == UNION { [1..n -> KeywordPool] : n \in 0..2 }

Score(context, keywords) ==
    /\ ~pick.scored
    /\ pick' = [pick EXCEPT !.scored = TRUE, !.context = context, !.keywords = keywords,
                             !.relevance = calculateRelevance(context, keywords)]
    /\ UNCHANGED <<md5, store, others, req, last, clock, expiry, written, gen, img>>

NextScore == \E context \in Contexts, keywords \in KeywordLists : Score(context, keywords)

SpecScore == Init /\ [][NextScore]_vars

-----------------------------------------------------------------------------
(* One request on the miss path, its guide produced by generateQuestGuide *)

\* generateQuestGuide(quest), called in the Promise.all of the handler
MissGenCall(r) ==
    /\ req[r].pc = "tasks"
    /\ req[r].gstat = "running"
    /\ gen.calls = 0
    /\ \E keySet \in BOOLEAN, ctorOk \in BOOLEAN : GenCall(req[r].quest, keySet, ctorOk)

\* what the handler's llmGuide is: any Guide object is truthy, null is not
GuideStatus(g) == IF g.ret = "guide" THEN "ok" ELSE "null"

\* the promise of generateQuestGuide settles with the generator's return value
GuideArrives(r) ==
    /\ req[r].pc = "tasks"
    /\ req[r].gstat = "running"
    /\ gen.pc = "done"
    /\ req' = [req EXCEPT ![r].gstat = GuideStatus(gen)]
    /\ gen' = [gen EXCEPT !.pc = "idle"]
    /\ UNCHANGED <<md5, store, others, last, clock, expiry, written, img, pick>>

NextMissPath ==
    \/ Invoke(1)
    \/ \E q \in Quests : SearchFinds(1, q)
    \/ MissGenCall(1)
    \/ ModelRejects
    \/ DelayElapses
    \/ \E text \in ModelTexts, badAt \in 0..MaxObjectives : ModelResolves(text, badAt)
    \/ GuideArrives(1)
    \/ ImagesSettle(1)
    \/ Join(1)
    \/ EditResolves(1)
    \/ EditRejects(1)

SpecMissPath == Init /\ [][NextMissPath]_vars

-----------------------------------------------------------------------------
(* One request on the miss path, its images produced by getQuestImages *)

\* getQuestImages(quest), called in the Promise.all of the handler
MissImgCall(r) ==
    /\ req[r].pc = "tasks"
    /\ req[r].istat = "running"
    /\ img.calls = 0
    /\ \E q \in ImageQuests : ImgCall(q)

\* the pages served to the one request: no image, one image, two images
MissPages == { <<>>, <<10>>, <<0, 10>> }

\* the promise of getQuestImages settles.  With an ImageSet the handler's images
\* is that set (the record img keeps it); had the promise rejected, Promise.all
\* would reject and the catch of line 257 would send the baseline
ImagesArrive(r) ==
    /\ req[r].pc = "tasks"
    /\ req[r].istat = "running"
    /\ img.pc = "done"
    /\ req' = IF img.threw
              THEN [req EXCEPT ![r].istat = "rejected", ![r].pc = "editFallback",
                               ![r].sent = "baseline"]
              ELSE [req EXCEPT ![r].istat = "ok"]
    /\ img' = [img EXCEPT !.pc = "handed"]
    /\ UNCHANGED <<md5, store, others, last, clock, expiry, written, gen, pick>>

NextMissImages ==
    \/ Invoke(1)
    \/ \E q \in Quests : SearchFinds(1, q)
    \/ \E ok \in BOOLEAN : GuideSettles(1, ok)
    \/ MissImgCall(1)
    \/ FetchRejects
    \/ TimerFires
    \/ \E ok \in BOOLEAN : FetchResolves(ok)
    \/ BodyRejects
    \/ \E page \in MissPages, badElement \in BOOLEAN : BodyResolves(page, badElement)
    \/ ImagesArrive(1)
    \/ Join(1)
    \/ EditResolves(1)
    \/ EditRejects(1)

SpecMissImages == Init /\ [][NextMissImages]_vars

-----------------------------------------------------------------------------
(* Properties *)

Key(q) == generateCacheKey(q.id, q.objectives)

\* the serialised text of each objective list, as generateCacheKey hashes it
Stringified == [o \in ObjLists |-> JSONStringify(o)]

\* the digest prefix of an objective list
Digest == [o \in ObjLists |-> md5[Stringified[o]]]

Found(x) == x.quest # NoQuest

Hit(x) == Found(x) /\ x.cachedData # NoData

Miss(x) == Found(x) /\ x.cachedData = NoData

\* C1: a request whose cache lookup returned an entry starts neither the guide
\* generator nor the image collector, and hands the cached value itself to
\* sendEnhancedResponse.
C1_HitServedFromCache ==
    \A r \in Slots :
        req[r].cachedData # NoData =>
            /\ req[r].gstat = "none"
            /\ req[r].istat = "none"
            /\ req[r].wrote = "none"
            /\ req[r].data = req[r].cachedData

C1_Witness ==
    \E r \in Slots :
        /\ req[r].pc = "done"
        /\ Hit(req[r])
        /\ req[r].sent = "enriched"
        /\ ~req[r].threw

\* number of the two invocations in which the task was started
Calls(r1, r2, task) ==
    (IF req[r1][task] # "none" THEN 1 ELSE 0) + (IF req[r2][task] # "none" THEN 1 ELSE 0)

\* C2 as stated: two successive requests for the same unchanged quest (the
\* second looked its quest up after the first had returned) start the generator
\* and the collector exactly once in total.
C2_OnceInTotal ==
    \A r1, r2 \in Slots :
        (r1 \in req[r2].doneBefore /\ req[r2].pc = "done") =>
            (Calls(r1, r2, "gstat") = 1 /\ Calls(r1, r2, "istat") = 1)

\* C2 amended: of two successive requests for the same unchanged quest, when the
\* first got a guide, its cache write was accepted and the entry has not expired,
\* the first started the generator and the collector once and the second is
\* served from the cache and starts neither.
C2_OnceWhenCached ==
    \A r1, r2 \in Slots :
        (r1 \in req[r2].doneBefore /\ req[r1].wrote = "ok") =>
            /\ Calls(r1, r2, "gstat") = 1 /\ Calls(r1, r2, "istat") = 1
            /\ req[r1].gstat = "ok"
            /\ Hit(req[r2])

C2_Witness ==
    \E r1, r2 \in Slots :
        /\ r1 \in req[r2].doneBefore
        /\ req[r1].wrote = "ok"
        /\ req[r2].pc = "done"
        /\ Hit(req[r2])
        /\ req[r2].sent = "enriched"
        /\ Calls(r1, r2, "gstat") = 1 /\ Calls(r1, r2, "istat") = 1

\* C3: a request whose guide generation returned null takes the baseline
\* fallback, never calls setCachedQuestGuide and never sends the enriched
\* response; the step that sees the null leaves the store as it was.
C3_NullGuideNoWrite ==
    /\ [](\A r \in Slots :
            (req[r].gstat = "null" /\ req[r].pc # "tasks") =>
                /\ req[r].wrote = "none"
                /\ req[r].data = NoData
                /\ req[r].sent = "baseline"
                /\ req[r].pc \in {"editFallback", "done"})
    /\ [][\A r \in Slots :
            (req[r].pc = "tasks" /\ req[r].gstat = "null" /\ req'[r].pc # "tasks")
                => store' = store]_vars

C3_Witness ==
    \E r \in Slots :
        /\ req[r].pc = "done"
        /\ req[r].gstat = "null"
        /\ req[r].istat = "ok"
        /\ req[r].sent = "baseline"
        /\ ~req[r].threw

\* C4 as stated: a request that missed the cache never ends with an exception
\* propagated to the caller of handleEnhancedQuestCommand.
C4_MissNeverPropagates ==
    \A r \in Slots :
        (Miss(req[r]) /\ req[r].pc = "done") => ~req[r].threw

\* C5 as stated: once the quest has been found the handler sends the enriched
\* response or the baseline view, never the error message.
C5_NeverErrorMessage ==
    \A r \in Slots :
        Found(req[r]) => req[r].sent \in {"none", "enriched", "baseline"}

\* C6: while Promise.all is awaited both tasks have been started; the cache write
\* and every response of the miss path come after both tasks have settled,
\* whichever settled first.
C6_JoinAfterBoth ==
    \A r \in Slots :
        /\ req[r].pc = "tasks" => (req[r].gstat # "none" /\ req[r].istat # "none")
        /\ (Miss(req[r]) /\ (req[r].wrote # "none" \/ req[r].sent # "none")) =>
                (req[r].gstat \in {"ok", "null"} /\ req[r].istat = "ok")

\* one request has its images first, another its guide first
C6_Witness ==
    \E r1, r2 \in Slots :
        /\ req[r1].pc = "tasks" /\ req[r1].istat = "ok" /\ req[r1].gstat = "running"
        /\ req[r2].pc = "tasks" /\ req[r2].istat = "running" /\ req[r2].gstat = "ok"

\* C7: when the guide and the images are there and the store rejects the write,
\* sendEnhancedResponse is still called with the generated data; the baseline is
\* sent only if that send itself fails.
C7_WriteFailureStillEnriched ==
    \A r \in Slots :
        req[r].wrote = "failed" =>
            /\ req[r].data = Generated(r)
            /\ req[r].sent = "enriched" \/ (req[r].sent = "baseline" /\ req[r].failedSend)

C7_Witness ==
    \E r \in Slots :
        /\ req[r].pc = "done"
        /\ req[r].wrote = "failed"
        /\ KeyCount(store, others) >= maxKeys
        /\ req[r].sent = "enriched"
        /\ ~req[r].threw

\* C8: setCachedQuestGuide never throws; a write the store rejects (it is full)
\* is reported as false and leaves the entry under the key as it was.
C8_SetNeverThrows ==
    last.op = "set" =>
        /\ ~last.threw
        /\ last.full => ~last.ret
        /\ ~last.ret => (last.full /\ last.got = last.before)

C8_Witness ==
    /\ last.op = "set"
    /\ last.full
    /\ ~last.ret
    /\ ~last.threw
    /\ DOMAIN store # {}

\* C9 as stated: set(questId, objectives, v) followed at once by
\* get(questId, objectives) returns v.
C9_RoundTrip ==
    last.op = "set" => last.got = last.v

\* C9 amended: a set that returns true, followed at once by get, returns v; a set
\* on a full store returns false and the get returns what was there before.
C9_RoundTripWhenStored ==
    last.op = "set" =>
        /\ last.ret => last.got = last.v
        /\ ~last.ret => (last.full /\ last.got = last.before)

C9_Witness ==
    /\ last.op = "set"
    /\ last.ret
    /\ last.before # NoData
    /\ last.before # last.v
    /\ last.got = last.v

\* C10 as stated: for one quest id, objective lists that differ have different
\* keys, so the entry a request is served was generated for exactly its own
\* objectives, never for other objectives of its quest.
C10_ChangedQuestNeverHits ==
    \A r \in Slots :
        Hit(req[r]) =>
            req[req[r].cachedData.llmGuide].quest.objectives = req[r].quest.objectives

\* C10 amended: the key computed for a (questId, objectives) pair is the same
\* whenever it is computed (the key of a request's lookup is the key of its
\* quest at any later time), and two requests for one quest id looked up the
\* same key exactly when the digest prefixes of their objective lists are equal.
C10_KeyFollowsDigest ==
    /\ \A r \in Slots : Found(req[r]) => req[r].key = Key(req[r].quest)
    /\ \A r1, r2 \in Slots :
            (Found(req[r1]) /\ Found(req[r2]) /\ req[r1].quest.id = req[r2].quest.id) =>
                ((req[r1].key = req[r2].key) <=>
                 (Digest[req[r1].quest.objectives] = Digest[req[r2].quest.objectives]))

\* the changed quest misses while the entry of its old objectives is cached
C10_Witness ==
    \E r \in Slots, a \in Quests :
        /\ req[r].pc = "tasks"
        /\ a.id = req[r].quest.id
        /\ a.objectives # req[r].quest.objectives
        /\ Key(a) \in DOMAIN store
        /\ Key(a) # Key(req[r].quest)

\* C11: the store never holds more than maxKeys (500) entries, and a set of a
\* key that is not stored while the store is full returns false, inserts nothing
\* and evicts nothing.
C11_RejectNewWrite ==
    /\ [](KeyCount(store, others) <= maxKeys)
    /\ [][\A q \in Quests, v \in EnrichmentResults :
            (ApiSet(q, v) /\ KeyCount(store, others) >= maxKeys
                          /\ Key(q) \notin DOMAIN store)
                => (~last'.ret /\ ~last'.threw /\ store' = store /\ others' = others)]_vars

\* a new key was refused by the full store, which still holds its 500 entries
C11_Witness ==
    /\ last.op = "set"
    /\ last.full
    /\ last.before = NoData
    /\ last.got = NoData
    /\ ~last.ret
    /\ KeyCount(store, others) = maxKeys

\* C12: a get made more than ttl + checkperiod seconds after the last accepted
\* write of its key returns nothing, and a get made no later than ttl seconds
\* after that write (the key not cleared since) returns the written value.
C12_TtlExpiry ==
    (last.op = "get" /\ last.key \in DOMAIN written) =>
        LET w == written[last.key]
        IN  /\ last.at > w.at + w.ttl + checkperiod => last.got = NoData
            /\ last.at <= w.at + w.ttl => last.got = w.v

\* an entry written with ttl 1 is gone after the sweep interval has passed
C12_Witness ==
    /\ last.op = "get"
    /\ last.key \in DOMAIN written
    /\ written[last.key].ttl = 1
    /\ last.at > written[last.key].at + 1 + checkperiod
    /\ clock.sweepAt > checkperiod
    /\ last.got = NoData

\* the attempts of the call in progress: the number of model invocations in its trace
Invocations(log) == Cardinality({ i \in 1..Len(log) : log[i] = "call" })

\* C13: a generateQuestGuide call in which every model call failed has invoked
\* the model exactly twice, waited once, between the two attempts and not after
\* the second, and returned null.
C13_TwoAttemptsThenNull ==
    (gen.pc = "done" /\ Invocations(gen.log) > 0 /\ \A i \in 1..Len(gen.log) : gen.log[i] # "ok")
        => /\ gen.log = <<"call", "fail", "delay", "call", "fail">>
           /\ gen.ret = "null"
           /\ ~gen.raised

C13_Witness ==
    /\ gen.pc = "done"
    /\ gen.log = <<"call", "fail", "delay", "call", "fail">>
    /\ gen.ret = "null"

\* C14: generateQuestGuide never raises: without an API key, when the client
\* cannot be built, when building the prompt throws, when both attempts failed
\* and when a pattern of the parser throws, the call returns a Guide or null.
C14_NeverRaises ==
    /\ ~gen.raised
    /\ gen.pc = "done" => gen.ret \in {"null", "guide"}
    /\ (gen.pc = "done" /\ (~gen.client \/ PromptThrows(gen.quest))) => gen.ret = "null"

\* the prompt could not be built for a client that was there
C14_Witness ==
    /\ gen.pc = "done"
    /\ gen.client
    /\ PromptThrows(gen.quest)
    /\ gen.ret = "null"
    /\ ~gen.raised

\* C20: a generateQuestGuide call invokes the model at most twice; an attempt
\* starts only when every earlier one has failed; nothing follows a success, so
\* a first-attempt success is one invocation and no delay.
C20_BoundedSequentialAttempts ==
    LET log == gen.log
    IN  /\ Invocations(log) <= 2
        /\ \A i, j \in 1..Len(log) :
                (i < j /\ log[i] = "call" /\ log[j] = "call")
                    => \E k \in (i + 1)..(j - 1) : log[k] = "fail"
        /\ gen.pc = "model" <=> (Len(log) > 0 /\ log[Len(log)] = "call")
        /\ \A i \in 1..Len(log) : log[i] = "ok" => (i = Len(log) /\ gen.ret = "guide")
        /\ (Len(log) >= 2 /\ log[2] = "ok") => log = <<"call", "ok">>

\* the first attempt succeeded
C20_Witness ==
    /\ gen.pc = "done"
    /\ gen.log = <<"call", "ok">>
    /\ gen.attempts = 1
    /\ gen.ret = "guide"

\* C15: getQuestImages never throws; it returns an ImageSet with the API images
\* of its quest, and after a failed scrape (fetch error, timeout, non-OK status,
\* broken body, an image element that cannot be read) wikiImages is empty.
C15_ScrapeFailureDegrades ==
    /\ ~img.threw
    /\ img.pc = "done" =>
            /\ img.ret = "images"
            /\ img.api = extractAPIImages(img.quest)
            /\ img.totalImages = TotalImages(img.api, img.wikiImages)
    /\ img.failure # "none" => img.wikiImages = <<>>

\* an image element made the parse throw; the icon of the objective is returned
C15_Witness ==
    /\ img.pc = "done"
    /\ img.failure = "element"
    /\ img.ret = "images"
    /\ img.wikiImages = <<>>
    /\ Len(img.api.objectiveImages) = 1
    /\ img.totalImages = 1

\* C16 as stated: a scrape that has started always returns, whatever the page
\* server does: the timer bounds the connection, the headers and the body read.
C16_ScrapeAlwaysReturns ==
    (img.pc \in {"fetch", "body"}) ~> (img.pc = "done")

\* the structural images the ImageSet holds for the objective index, by type
Structural(p, type) ==
    { u \in {"icon0", "icon1", "full0", "full1"} :
        \E n \in 1..Len(p.allImages.objectiveImages) :
            LET o == p.allImages.objectiveImages[n]
            IN  /\ o.objectiveIndex = p.objectiveIndex
                /\ \E i \in 1..Len(o.images) : o.images[i].url = u /\ o.images[i].type = type }

WikiUrls(p) == { p.allImages.wikiImages[i].url : i \in 1..Len(p.allImages.wikiImages) }

\* C17: findImageForObjective returns a full structural image of the index when
\* there is one, otherwise an icon of the index when there is one, whatever the
\* scraped images are; a scraped image only when the index has no structural
\* image; and null exactly when there is neither.
C17_StructuralFirst ==
    pick.called =>
        LET full == Structural(pick, "image")
            icons == Structural(pick, "icon")
        IN  /\ full # {} => pick.ret \in full
            /\ (full = {} /\ icons # {}) => pick.ret \in icons
            /\ pick.ret \in WikiUrls(pick) => (full = {} /\ icons = {})
            /\ pick.ret = "" <=> (full = {} /\ icons = {} /\ WikiUrls(pick) = {})

\* an icon wins over a scraped image that matches every keyword
C17_Witness ==
    /\ pick.called
    /\ pick.keywords = <<Words.ab, Words.cd>>
    /\ Structural(pick, "image") = {}
    /\ pick.ret \in Structural(pick, "icon")
    /\ \E i \in 1..Len(pick.allImages.wikiImages) :
            Relevant(pick.allImages.wikiImages[i], pick.keywords)

\* two invocations for the same quest that were in flight together and both
\* missed the cache
ConcurrentMisses(r1, r2) ==
    /\ r1 # r2
    /\ Miss(req[r1]) /\ Miss(req[r2])
    /\ req[r1].quest = req[r2].quest
    /\ r1 \notin req[r2].doneBefore
    /\ r2 \notin req[r1].doneBefore

\* C18 as stated: of two requests for the same quest that missed concurrently
\* and each got a guide, each one's write is accepted whatever the other has
\* done, so that the entry of the key holds the value written last.
C18_LastWriteWins ==
    [][\A r1, r2 \in Slots :
        (/\ ConcurrentMisses(r1, r2)
         /\ req[r2].gstat = "ok"
         /\ req[r1].gstat = "ok" /\ req[r1].pc = "tasks" /\ req'[r1].pc # "tasks")
            => /\ req'[r1].wrote = "ok"
               /\ req[r1].key \in DOMAIN store'
               /\ store'[req[r1].key] = Generated(r1)]_vars

\* a Guide with an empty overview, empty tips and every objective slot empty
Unusable(guide) ==
    /\ guide.overview = <<>>
    /\ guide.tips = <<>>
    /\ \A i \in 1..Len(guide.objectives) : guide.objectives[i] = <<>>

\* C19 as stated: a request whose model call succeeded with a guide that holds
\* nothing usable sends the baseline view and writes nothing to the cache.
C19_UnusableGuideFallsBack ==
    \A r \in Slots :
        (/\ Miss(req[r]) /\ req[r].pc # "tasks"
         /\ gen.ret = "guide" /\ Unusable(gen.guide))
            => (req[r].sent = "baseline" /\ req[r].wrote = "none")

\* C28: scrapeWikiImages returns at most 10 of the accepted images, in order of
\* non-increasing relevanceScore, and no accepted image it drops scores higher
\* than an image it returns.
C28_TopTenByScore ==
    (img.pc = "done" /\ img.failure = "none") =>
        LET out == img.wikiImages
            kept == { out[i].pos : i \in 1..Len(out) }
        IN  /\ Len(out) <= 10
            /\ Len(out) = (IF Len(img.accepted) < 10 THEN Len(img.accepted) ELSE 10)
            /\ \A i \in 1..Len(out) : out[i] = img.accepted[out[i].pos]
            /\ Cardinality(kept) = Len(out)
            /\ \A i, j \in 1..Len(out) :
                    i < j => out[i].relevanceScore >= out[j].relevanceScore
            /\ \A d \in (1..Len(img.accepted)) \ kept, i \in 1..Len(out) :
                    img.accepted[d].relevanceScore <= out[i].relevanceScore

\* eleven images were accepted; the one dropped scores lowest and a better
\* one stood behind it in the page
C28_Witness ==
    /\ img.pc = "done"
    /\ img.failure = "none"
    /\ Len(img.accepted) = 11
    /\ Len(img.wikiImages) = 10
    /\ img.accepted[1].relevanceScore = 1
    /\ img.accepted[11].relevanceScore = 10
    /\ \E i \in 1..10 : img.wikiImages[i].pos = 11

\* C21: when the scrape of the reference page fails (fetch error, timeout or
\* non-OK status) and the guide was generated, the request does not fall back:
\* the enriched result is sent, with the generated data and an empty wikiImages
\* list (the baseline follows only if sending the enriched result itself fails).
C21_ScrapeFailureStillEnriched ==
    ( /\ req[1].gstat = "ok"
      /\ img.pc = "handed"
      /\ img.failure \in {"fetch", "timeout", "status"}
      /\ req[1].pc # "tasks" )
    => /\ img.ret = "images"
       /\ img.wikiImages = <<>>
       /\ req[1].data = Generated(1)
       /\ req[1].sent = "enriched" \/ (req[1].sent = "baseline" /\ req[1].failedSend)

C21_Witness ==
    /\ req[1].pc = "done"
    /\ req[1].gstat = "ok"
    /\ img.pc = "handed"
    /\ img.failure = "timeout"
    /\ img.wikiImages = <<>>
    /\ req[1].sent = "enriched"
    /\ ~req[1].failedSend

\* the last call of generateQuestGuide got a response text and parsed it without
\* an exception
ParsedOk ==
    /\ gen.ret = "guide"
    /\ gen.badAt \notin 1..Len(gen.quest.objectives)

\* what the per-objective patterns found for the objectives of the last call
PerObjective ==
    [i \in 1..Len(gen.quest.objectives) |->
        IF i <= Len(gen.text.marked) THEN gen.text.marked[i] ELSE <<>>]

\* the chunks of the guide section of the last response text
Chunks == Split(Trim(gen.text.steps))

\* every slot is empty after the per-objective matching and the text has a guide
\* section: the slots are filled by position
PositionalApplies ==
    /\ ParsedOk
    /\ \A i \in 1..Len(gen.quest.objectives) : PerObjective[i] = <<>>
    /\ gen.text.section

\* C22: the slots are taken from the chunks of the guide section only when the
\* per-objective matching left every slot empty; when they are and there are at
\* least as many chunks as objectives, slot i holds exactly the i-th chunk.
C22_PositionalOnlyWhenNoneParsed ==
    /\ (ParsedOk /\ \E i \in 1..Len(gen.quest.objectives) : PerObjective[i] # <<>>)
          => gen.guide.objectives = PerObjective
    /\ (PositionalApplies /\ Len(Chunks) >= Len(gen.quest.objectives))
          => \A i \in 1..Len(gen.quest.objectives) : gen.guide.objectives[i] = Chunks[i]

C22_Witness ==
    /\ PositionalApplies
    /\ Len(gen.quest.objectives) = 2
    /\ Len(Chunks) = 3
    /\ gen.guide.objectives = << <<"A">>, <<"B">> >>

\* C23 as stated: when the slots are filled by position and there are fewer
\* chunks than objectives, every slot beyond the last chunk holds the final chunk
\* or is empty.
C23_ShortFallbackReusesOrEmpty ==
    (PositionalApplies /\ Len(Chunks) < Len(gen.quest.objectives))
        => \A i \in (Len(Chunks) + 1)..Len(gen.quest.objectives) :
              \/ gen.guide.objectives[i] = Chunks[Len(Chunks)]
              \/ gen.guide.objectives[i] = <<>>

\* the model call of the last invocation resolved and the parsing threw
ParseThrew ==
    /\ gen.pc \in {"done", "idle"}
    /\ Len(gen.log) > 0
    /\ gen.log[Len(gen.log)] = "ok"
    /\ gen.badAt \in 1..Len(gen.quest.objectives)

\* C24: when the segmentation throws, a Guide is returned all the same and every
\* objective slot, those filled before the exception included, holds the whole
\* response text.
C24_ParseErrorGivesRawEverywhere ==
    ParseThrew =>
        /\ gen.ret = "guide"
        /\ Len(gen.guide.objectives) = Len(gen.quest.objectives)
        /\ \A i \in 1..Len(gen.quest.objectives) : gen.guide.objectives[i] = gen.text.raw
        /\ gen.guide.raw = gen.text.raw

C24_Witness ==
    /\ ParseThrew
    /\ gen.badAt = 2
    /\ PerObjective[1] = <<"a">>
    /\ gen.guide.objectives[1] = gen.text.raw
    /\ gen.text.raw # <<>>

\* C25: a Guide returned by generateQuestGuide has exactly one slot per objective
\* of the quest, each slot is a string, and the slot of an objective for which
\* nothing was found (no match, no positional filling, no exception) is ''.
C25_OneSlotPerObjective ==
    gen.ret = "guide" =>
        /\ Len(gen.guide.objectives) = Len(gen.quest.objectives)
        /\ \A i \in 1..Len(gen.guide.objectives) :
              /\ gen.guide.objectives[i] \in Seq(STRING)
              /\ (ParsedOk /\ ~PositionalApplies /\ PerObjective[i] = <<>>)
                    => gen.guide.objectives[i] = <<>>

C25_Witness ==
    /\ gen.ret = "guide"
    /\ Len(gen.quest.objectives) = 3
    /\ gen.guide.objectives = << <<>>, <<"b">>, <<>> >>

\* the relevance of scraped image i of the last findImageForObjective call to the
\* keywords of that call
ObjectiveRelevance(i) ==
    LET image == pick.allImages.wikiImages[i]
    IN  calculateRelevance(image.description \o <<" ">> \o image.alt, pick.keywords)

\* C26 as stated: with no structural image for the index, the image returned is
\* the most relevant of the scraped images whose relevance to the objective's
\* keywords exceeds 0.5, and the first scraped image when none exceeds 0.5.
C26_BestScoringScraped ==
    ( /\ pick.called
      /\ Structural(pick, "image") = {} /\ Structural(pick, "icon") = {}
      /\ Len(pick.allImages.wikiImages) > 0 )
    => LET wiki == pick.allImages.wikiImages
           relevant == { i \in 1..Len(wiki) : Relevant(wiki[i], pick.keywords) }
       IN  IF relevant # {}
           THEN \E i \in relevant :
                   /\ pick.ret = wiki[i].url
                   /\ \A j \in relevant : ObjectiveRelevance(j).score <= ObjectiveRelevance(i).score
           ELSE pick.ret = wiki[1].url

\* the two strings are equal but for the case of their letters
SameIgnoringCase(a, b) ==
    /\ Len(a) = Len(b)
    /\ \A i \in 1..Len(a) : Lower(a[i]) = Lower(b[i])

\* the keyword occurs somewhere in the context
OccursIn(keyword, context) ==
    \E i \in 1..(Len(context) - Len(keyword) + 1) :
        SameIgnoringCase(SubSeq(context, i, i + Len(keyword) - 1), keyword)

\* the keyword is one of the words of the context: it fills the place between
\* two spaces, or between a space and an end of the context
IsWordOf(keyword, context) ==
    \E i \in 1..Len(context), j \in 1..Len(context) :
        /\ i <= j
        /\ i = 1 \/ context[i - 1] = " "
        /\ j = Len(context) \/ context[j + 1] = " "
        /\ \A m \in i..j : context[m] # " "
        /\ SameIgnoringCase(SubSeq(context, i, j), keyword)

\* no keyword of the list occurs in the context
NoneOccurs(keywords, context) ==
    \A n \in 1..Len(keywords) : ~OccursIn(keywords[n], context)

\* C27: for a non-empty keyword list calculateRelevance returns
\* (2 x keywords matched as a whole word + keywords matched only inside a word)
\* / (2 x number of keywords), letter case ignored; the result lies in [0, 1],
\* is 0 exactly when no keyword occurs in the context, and is higher than the
\* result for any context in which none of the keywords occurs.
C27_RelevanceFormula ==
    (pick.scored /\ Len(pick.keywords) > 0) =>
        LET kw == pick.keywords
            r == pick.relevance
            whole == Cardinality({ n \in 1..Len(kw) : IsWordOf(kw[n], pick.context) })
            inside == Cardinality({ n \in 1..Len(kw) : /\ OccursIn(kw[n], pick.context)
                                                        /\ ~IsWordOf(kw[n], pick.context) })
        IN  /\ r.score * (2 * Len(kw)) = (2 * whole + inside) * r.maxScore
            /\ 0 <= r.score /\ r.score <= r.maxScore /\ r.maxScore > 0
            /\ r.score = 0 <=> NoneOccurs(kw, pick.context)
            /\ ~NoneOccurs(kw, pick.context) =>
                  \A other \in Contexts :
                      NoneOccurs(kw, other) =>
                          LET o == calculateRelevance(other, kw)
                          IN  o.score * r.maxScore < r.score * o.maxScore

C27_Witness ==
    /\ pick.scored
    /\ pick.keywords = <<Words.AB, Words.cd>>
    /\ pick.context = JoinWords(<<Words.abs, Words.cd>>)
    /\ pick.relevance = [score |-> 3, maxScore |-> 4]

\* C29 as stated: a request that ends in the baseline fallback has written no
\* cache entry.
C29_BaselineNeverCached ==
    \A r \in Slots : req[r].sent = "baseline" => req[r].wrote # "ok"

\* C29 amended: a request that falls back because its guide failed has written
\* no cache entry; a request falls back after a cache write only when the send of
\* its enriched response failed, and then the write was made before the send.
C29_NoWriteUnlessSendFailed ==
    \A r \in Slots :
        req[r].sent = "baseline" =>
            /\ ~req[r].failedSend => (req[r].wrote = "none" /\ req[r].gstat = "null")
            /\ req[r].failedSend =>
                  (req[r].wrote # "none" /\ req[r].gstat = "ok")

\* the entry of a request whose enriched send failed is in the cache
C29_Witness ==
    \E r \in Slots :
        /\ req[r].pc = "done"
        /\ req[r].sent = "baseline"
        /\ req[r].failedSend
        /\ req[r].wrote = "ok"
        /\ req[r].key \in DOMAIN store
        /\ store[req[r].key] = Generated(r)

\* C30: requests for different quest ids use different keys whatever their
\* objectives are, every entry lies under the key of the request that wrote it,
\* and the entry a request is served was written for its own quest id.
C30_KeysSeparateQuestIds ==
    /\ \A r1, r2 \in Slots :
            (Found(req[r1]) /\ Found(req[r2]) /\ req[r1].quest.id # req[r2].quest.id)
                => req[r1].key # req[r2].key
    /\ \A k \in DOMAIN store : req[store[k].llmGuide].key = k
    /\ \A r \in Slots :
            Hit(req[r]) => req[req[r].cachedData.llmGuide].quest.id = req[r].quest.id

\* an entry written for one quest id is stored, and a get for another quest id
\* with the same objectives (the same digest) returns nothing
C30_Witness ==
    \E p \in Slots, q \in Quests :
        /\ req[p].wrote = "ok"
        /\ req[p].key \in DOMAIN store
        /\ store[req[p].key] = Generated(p)
        /\ q.id # req[p].quest.id
        /\ q.objectives = req[p].quest.objectives
        /\ getCachedQuestGuide(store, q.id, q.objectives) = NoData
        /\ \E r \in Slots : req[r].quest = q /\ Miss(req[r]) /\ req[p].pc = "done"

====
